---- MODULE Spec2Model ----
(***************************************************************************)
(* Model of RAGMaster/src/langchain/langchain_utils/langchain_index_utils.py *)
(* class PrepareVectorDB: the constructor, and prepare_and_save_vectordb    *)
(* stepped through its three calls (__load_all_documents, one loader call   *)
(* per step; __chunk_documents; Chroma.from_documents).                     *)
(*                                                                         *)
(* The collaborators are library code.  They are modelled by what they do  *)
(* to the values the class hands them:                                      *)
(*   PyPDFLoader(p).load()   one document per page, or an exception         *)
(*   text_splitter            window splitting of a page's text             *)
(*   Chroma.from_documents   one entry per document appended to the         *)
(*                            collection of persist_directory, or an        *)
(*                            exception                                     *)
(* A page's text is represented by its length; a chunk by the half-open    *)
(* range of the page's text it holds.                                       *)
(***************************************************************************)
EXTENDS Integers, Sequences, FiniteSets, TLC

\* ------------------------------------------------------------------ bounds
\* longest directory listing explored
MaxFiles == 2
\* longest list given as data_directory
MaxList == 2
\* largest chunk_size / token_chunk_size / overlap given to the constructor
MaxSize == 2
\* calls of prepare_and_save_vectordb on the one instance
MaxRuns == 2

\* ------------------------------------------------------------- environment
DataDir == "data"
RecursiveDir == "recursive_db"
TokenDir == "token_db"
SaveDirs == {RecursiveDir, TokenDir}
Engine == "text-embedding-ada-002"

\* The files that may lie in DataDir.  bad.pdf is a file pypdf cannot parse;
\* notes.txt is a valid PDF under another extension.
FileNames == {"a.pdf", "notes.txt", "bad.pdf"}

\* pypdf can parse the file
Parseable(name) == name \in {"a.pdf", "notes.txt"}

\* text length of each page of a parseable file
FilePages(name) ==
    CASE name = "a.pdf" -> <<3, 1>>
      [] name = "notes.txt" -> <<0, 2>>
      [] OTHER -> <<>>

Unset == "unset"
\* an attribute that was never assigned, for the attributes that hold objects
NoSplitter == [kind |-> Unset, chunk_size |-> 0, chunk_overlap |-> 0]
NoDataDirectory == [is_list |-> FALSE, dir |-> Unset, items |-> <<>>]
NoError == [stage |-> "none", kind |-> "none", path |-> <<>>]

Min(a, b) == IF a < b THEN a ELSE b
Max(a, b) == IF a > b THEN a ELSE b

SeqsUpTo(S, n) == UNION {[1..k -> S] : k \in 0..n}

NoRepeat(s) == \A j, k \in 1..Len(s) : j # k => s[j] # s[k]

Listings == {s \in SeqsUpTo(FileNames, MaxFiles) : NoRepeat(s)}

VARIABLES
    listing,            \* os.listdir(DataDir): the directory's entries, in listing order
    index,              \* the Chroma collection persisted in each save directory
    pc,                 \* position of the caller / of prepare_and_save_vectordb
    self,               \* the instance's attributes
    paths,              \* the paths the load loop iterates
    doc_counter,        \* __load_all_documents: doc_counter
    docs,               \* __load_all_documents: docs
    chunked_documents,  \* prepare_and_save_vectordb: chunked_documents
    vectordb,           \* the value prepare_and_save_vectordb returned
    err,                \* the exception that left the constructor or the run
    calls,              \* collaborator calls made in the current run
    runs,               \* calls of prepare_and_save_vectordb so far
    index0,             \* history: index when the current run started
    handed              \* history: for the last two runs that reached Chroma, the listing and the documents handed over

vars == <<listing, index, pc, self, paths, doc_counter, docs, chunked_documents,
          vectordb, err, calls, runs, index0, handed>>

NoCalls == [load |-> 0, split |-> 0, store |-> 0]

NoSelf == [embedding_model_engine |-> Unset, splitter_type |-> Unset,
           text_splitter |-> NoSplitter, persist_directory |-> Unset,
           data_directory |-> NoDataDirectory]

Init ==
    /\ listing \in Listings
    /\ index = [d \in SaveDirs |-> <<>>]
    /\ pc = "new"
    /\ self = NoSelf
    /\ paths = <<>>
    /\ doc_counter = 0
    /\ docs = <<>>
    /\ chunked_documents = <<>>
    /\ vectordb = Unset
    /\ err = NoError
    /\ calls = NoCalls
    /\ runs = 0
    /\ index0 = index
    /\ handed = <<>>

\* ------------------------------------------------------------ collaborators

\* os.path.join(directory, name)
join(d, name) == <<d, name>>

\* TextSplitter.__init__ (both splitters): rejects an overlap larger than the size
SplitterRejects(size, overlap) == overlap > size

\* PyPDFLoader(path): the file must exist; .load(): it must parse
LoaderFails(path) ==
    \/ path[1] # DataDir
    \/ \A k \in 1..Len(listing) : listing[k] # path[2]
    \/ ~Parseable(path[2])

\* PyPDFLoader(path).load(): one document per page, in page order, with the
\* path and the page number as metadata
Load(path) ==
    [k \in 1..Len(FilePages(path[2])) |->
        [source |-> path, page |-> k - 1, len |-> FilePages(path[2])[k]]]

\* RecursiveCharacterTextSplitter on a text of L characters without separators:
\* a window of `size` characters that advances by size - overlap (at least 1)
\* and ends with the window that reaches the end of the text
RECURSIVE RecursiveWindows(_, _, _, _)
RecursiveWindows(st, L, size, overlap) ==
    IF L = 0 THEN <<>>
    ELSE IF st + size >= L THEN <<[from |-> st, to |-> L]>>
    ELSE <<[from |-> st, to |-> st + size]>>
         \o RecursiveWindows(st + Max(1, size - overlap), L, size, overlap)

\* TokenTextSplitter on a text of L tokens: windows start every size - overlap
\* tokens while the start lies inside the text
RECURSIVE TokenWindows(_, _, _, _)
TokenWindows(st, L, size, overlap) ==
    IF st >= L THEN <<>>
    ELSE <<[from |-> st, to |-> Min(st + size, L)]>>
         \o TokenWindows(st + (size - overlap), L, size, overlap)

\* the token splitter's loop does not advance when overlap = size
SplitterHangs(ts, ds) ==
    /\ ts.kind = "token"
    /\ ts.chunk_overlap = ts.chunk_size
    /\ \E k \in 1..Len(ds) : ds[k].len > 0

SplitText(ts, L) ==
    IF ts.kind = "recursive"
    THEN RecursiveWindows(0, L, ts.chunk_size, ts.chunk_overlap)
    ELSE TokenWindows(0, L, ts.chunk_size, ts.chunk_overlap)

\* TextSplitter.split_documents: the chunks of each document in turn, each
\* with a copy of its document's metadata; the documents are not changed
RECURSIVE split_documents(_, _)
split_documents(ts, ds) ==
    IF ds = <<>> THEN <<>>
    ELSE LET d == Head(ds)
             w == SplitText(ts, d.len)
         IN [k \in 1..Len(w) |->
                [source |-> d.source, page |-> d.page,
                 from |-> w[k].from, to |-> w[k].to]]
            \o split_documents(ts, Tail(ds))

\* mutant of FromDocuments: a document already in the collection is not added again
FromDocumentsOncePerContent(collection, documents) ==
    collection \o SelectSeq(documents,
                            LAMBDA d : \A k \in 1..Len(collection) : collection[k] # d)

\* Chroma.from_documents: one entry per document, appended to the collection
FromDocuments(collection, documents) == collection \o documents

\* vectordb._collection.count()
Count(d) == Len(index[d])

\* ---------------------------------------------------------------- __init__

SplitterTypes == {"recursive", "token", "semantic"}
Sizes == 1..MaxSize
Overlaps == 0..MaxSize
\* data_directory: the directory, or a list of paths of files that may be
\* present or missing
DataDirectories ==
    {[is_list |-> FALSE, dir |-> DataDir, items |-> <<>>]}
    \cup {[is_list |-> TRUE, dir |-> "", items |-> ps] :
             ps \in SeqsUpTo({join(DataDir, n) : n \in FileNames}, MaxList)}

\* lines 63-75: the splitter and the save directory the constructor assigns
ChosenSplitter(splitter_type, chunk_size, chunk_overlap, token_chunk_size, token_chunk_overlap) ==
    IF splitter_type = "recursive"
    THEN [kind |-> "recursive", chunk_size |-> chunk_size,
          chunk_overlap |-> chunk_overlap]
    ELSE IF splitter_type = "token"
    THEN [kind |-> "token", chunk_size |-> token_chunk_size,
          chunk_overlap |-> token_chunk_overlap]
    ELSE NoSplitter

ChosenDirectory(splitter_type, token_vector_db_save_dir, recursive_vector_db_save_dir) ==
    IF splitter_type = "recursive" THEN recursive_vector_db_save_dir
    ELSE IF splitter_type = "token" THEN token_vector_db_save_dir
    ELSE Unset

\* mutant of ConstructorRaises: an unknown splitter_type is rejected too
ConstructorValidatesType(ts) ==
    ts.kind = Unset \/ SplitterRejects(ts.chunk_size, ts.chunk_overlap)

\* the constructor raises exactly when the splitter it builds does
ConstructorRaises(ts) ==
    ts.kind # Unset /\ SplitterRejects(ts.chunk_size, ts.chunk_overlap)

PrepareVectorDB(data_directory, splitter_type, chunk_size, chunk_overlap, token_chunk_size, token_chunk_overlap) ==
    LET ts == ChosenSplitter(splitter_type, chunk_size, chunk_overlap,
                             token_chunk_size, token_chunk_overlap)
    IN
    /\ pc = "new"
    /\ IF ConstructorRaises(ts)
       THEN /\ self' = [self EXCEPT !.embedding_model_engine = Engine,
                                    !.splitter_type = splitter_type]
            /\ err' = [stage |-> "init", kind |-> "ValueError", path |-> <<>>]
            /\ pc' = "init_failed"
       ELSE /\ self' = [embedding_model_engine |-> Engine,
                        splitter_type |-> splitter_type,
                        text_splitter |-> ts,
                        persist_directory |->
                            ChosenDirectory(splitter_type, TokenDir, RecursiveDir),
                        data_directory |-> data_directory]
            /\ err' = err
            /\ pc' = "ready"
    /\ UNCHANGED <<listing, index, paths, doc_counter, docs, chunked_documents,
                   vectordb, calls, runs, index0, handed>>

Construct ==
    /\ pc = "new"
    /\ \E dd \in DataDirectories, st \in SplitterTypes,
       cs \in Sizes, co \in Overlaps, ts \in Sizes, to \in Overlaps :
        PrepareVectorDB(dd, st, cs, co, ts, to)

\* ------------------------------------------------- prepare_and_save_vectordb

\* mutant of document_list: only the *.pdf entries are kept
document_list_pdf_only ==
    SelectSeq(listing, LAMBDA name : name \in {"a.pdf", "bad.pdf"})

\* line 100: document_list = os.listdir(self.data_directory)
document_list == listing

\* lines 90-104: the paths the loop hands to PyPDFLoader, in loop order
LoopPaths ==
    IF self.data_directory.is_list
    THEN self.data_directory.items
    ELSE [k \in 1..Len(document_list) |->
             join(self.data_directory.dir, document_list[k])]

\* mutant of FreshDocs: the list of the previous call is kept
LeftoverDocs == docs

\* lines 92, 101: docs = []
FreshDocs == <<>>

\* mutant of LoopDone: the function returns from inside the loop body
LoopDoneAfterFirst == doc_counter >= 1 \/ Len(paths) = 0

\* lines 93, 102: the for loop has no element left
LoopDone == doc_counter = Len(paths)

\* line 134 entering __load_all_documents, lines 89-92 / 99-101
Start ==
    /\ pc \in {"ready", "done", "failed"}
    /\ runs < MaxRuns
    /\ runs' = runs + 1
    /\ paths' = LoopPaths
    /\ doc_counter' = 0
    /\ docs' = FreshDocs
    /\ chunked_documents' = <<>>
    /\ vectordb' = Unset
    /\ err' = NoError
    /\ calls' = NoCalls
    /\ index0' = index
    /\ pc' = "load"
    /\ UNCHANGED <<listing, index, self, handed>>

\* mutant of LoadRaised: the exception is caught and the loop goes on
LoadSkipped(path) ==
    /\ doc_counter' = doc_counter + 1
    /\ UNCHANGED <<err, pc, docs>>

\* the loader's exception (recorded under the name of the loader's error
\* kind, with the path the loader was built with) leaves __load_all_documents
\* and prepare_and_save_vectordb: nothing catches it
LoadRaised(path) ==
    /\ err' = [stage |-> "load", kind |-> "DocumentLoadError", path |-> path]
    /\ pc' = "failed"
    /\ UNCHANGED <<doc_counter, docs>>

\* lines 94-95 / 103-105: docs.extend(PyPDFLoader(path).load()); doc_counter += 1
LoadDocument ==
    /\ pc = "load"
    /\ ~LoopDone
    /\ LET path == paths[doc_counter + 1] IN
        /\ calls' = [calls EXCEPT !.load = @ + 1]
        /\ IF LoaderFails(path)
           THEN LoadRaised(path)
           ELSE /\ docs' = docs \o Load(path)
                /\ doc_counter' = doc_counter + 1
                /\ UNCHANGED <<err, pc>>
    /\ UNCHANGED <<listing, index, self, paths, chunked_documents, vectordb,
                   runs, index0, handed>>

\* lines 96-109: the loop is over, return docs
LoadReturn ==
    /\ pc = "load"
    /\ LoopDone
    /\ pc' = "chunk"
    /\ UNCHANGED <<listing, index, self, paths, doc_counter, docs,
                   chunked_documents, vectordb, err, calls, runs, index0, handed>>

\* lines 122-125: chunked_documents = self.text_splitter.split_documents(docs)
chunk_documents(ds) == split_documents(self.text_splitter, ds)

\* line 135.  Without a text_splitter attribute the lookup raises; the
\* splitter may raise, may not return, or returns the chunks.
ChunkDocuments ==
    /\ pc = "chunk"
    /\ IF self.text_splitter.kind = Unset
       THEN /\ err' = [stage |-> "chunk", kind |-> "AttributeError", path |-> <<>>]
            /\ pc' = "failed"
            /\ UNCHANGED <<chunked_documents, calls>>
       ELSE /\ calls' = [calls EXCEPT !.split = @ + 1]
            /\ IF SplitterHangs(self.text_splitter, docs)
               THEN /\ pc' = "hung"
                    /\ UNCHANGED <<chunked_documents, err>>
               ELSE \/ /\ chunked_documents' = chunk_documents(docs)
                       /\ pc' = "store"
                       /\ err' = err
                    \/ /\ err' = [stage |-> "chunk", kind |-> "SplitterError",
                                   path |-> <<>>]
                       /\ pc' = "failed"
                       /\ UNCHANGED chunked_documents
    /\ UNCHANGED <<listing, index, self, paths, doc_counter, docs, vectordb,
                   runs, index0, handed>>

\* mutant of StoreRaised: the exception is caught and a handle is returned
StoreSwallowed(kind, written) ==
    /\ index' = [index EXCEPT ![self.persist_directory] =
                     FromDocuments(@, SubSeq(chunked_documents, 1, written))]
    /\ err' = [stage |-> "store", kind |-> kind, path |-> <<>>]
    /\ pc' = "done"
    /\ vectordb' = self.persist_directory

\* Chroma.from_documents raised after `written` of the entries reached the
\* collection (the entries are written in one batch: none, or all before a
\* failing persist): the exception leaves prepare_and_save_vectordb
StoreRaised(kind, written) ==
    /\ index' = [index EXCEPT ![self.persist_directory] =
                     FromDocuments(@, SubSeq(chunked_documents, 1, written))]
    /\ err' = [stage |-> "store", kind |-> kind, path |-> <<>>]
    /\ pc' = "failed"
    /\ vectordb' = vectordb

\* lines 137-145: vectordb = Chroma.from_documents(documents=chunked_documents,
\* embedding=self.embedding, persist_directory=self.persist_directory); return it
CreateVectorDB ==
    /\ pc = "store"
    /\ calls' = [calls EXCEPT !.store = @ + 1]
    /\ LET now == [listing |-> listing, documents |-> chunked_documents]
       IN handed' = IF handed = <<>> THEN <<now>>
                    ELSE <<handed[Len(handed)], now>>
    /\ \/ /\ index' = [index EXCEPT ![self.persist_directory] =
                             FromDocuments(@, chunked_documents)]
          /\ vectordb' = self.persist_directory
          /\ pc' = "done"
          /\ err' = err
       \/ StoreRaised("EmbeddingBackendError", 0)
       \/ \E written \in {0, Len(chunked_documents)} :
              StoreRaised("StorageError", written)
    /\ UNCHANGED <<listing, self, paths, doc_counter, docs, chunked_documents,
                   runs, index0>>

\* the environment: after a call has returned or raised, and before the
\* next one, a file is removed from the directory
FileRemoved ==
    /\ pc \in {"done", "failed"}
    /\ pc' = "ready"
    /\ \E k \in 1..Len(listing) :
           listing' = SubSeq(listing, 1, k - 1) \o SubSeq(listing, k + 1, Len(listing))
    /\ UNCHANGED <<index, self, paths, doc_counter, docs, chunked_documents,
                   vectordb, err, calls, runs, index0, handed>>

Next ==
    \/ Construct
    \/ FileRemoved
    \/ Start
    \/ LoadDocument
    \/ LoadReturn
    \/ ChunkDocuments
    \/ CreateVectorDB

Spec == Init /\ [][Next]_vars

\* ------------------------------------------------------------------ claims

Constructed == pc \notin {"new", "init_failed"}
InRun == pc \in {"load", "chunk", "store", "done", "failed", "hung"}
KnownTypes == {"recursive", "token"}
EmptyIndex == [d \in SaveDirs |-> <<>>]

\* number of pages of the first k paths of the loop
RECURSIVE SumPages(_)
SumPages(k) ==
    IF k = 0 THEN 0 ELSE SumPages(k - 1) + Len(FilePages(paths[k][2]))

\* C1: within one run the stages occur in the order load, chunk, embed+store,
\* each complete before the next starts: the splitter is invoked only after
\* every path of the loop has been loaded, Chroma only after the chunks of all
\* documents have been returned, the index changes only in the store stage, and
\* no stage is skipped or entered twice.
C1_StageOrder ==
    InRun =>
        /\ calls.load <= Len(paths) /\ calls.split <= 1 /\ calls.store <= 1
        /\ pc \in {"chunk", "store", "done", "hung"} =>
               doc_counter = Len(paths) /\ calls.load = Len(paths)
        /\ calls.split > 0 => doc_counter = Len(paths) /\ calls.load = Len(paths)
        /\ pc = "chunk" => calls.split = 0 /\ calls.store = 0
        /\ pc = "load" => calls.split = 0 /\ calls.store = 0
        /\ pc = "store" => calls.split = 1 /\ calls.store = 0
        /\ calls.store > 0 =>
               calls.split = 1 /\ chunked_documents = chunk_documents(docs)
        /\ index # index0 => calls.store = 1
        /\ pc = "done" => calls.load = Len(paths) /\ calls.split = 1 /\ calls.store = 1

C1_Witness ==
    pc = "done" /\ Len(paths) = 2 /\ Len(docs) > 2 /\ Len(chunked_documents) > 2

\* C2 (as claimed): every constructed instance has exactly one of the two
\* splitter policies, its save directory is the one of that policy, and only
\* that directory is ever written.
C2_PolicyBoundToDirectory ==
    Constructed =>
        /\ self.splitter_type \in KnownTypes
        /\ self.text_splitter.kind = self.splitter_type
        /\ self.persist_directory =
               (IF self.splitter_type = "recursive" THEN RecursiveDir ELSE TokenDir)
        /\ \A d \in SaveDirs : index[d] # <<>> => d = self.persist_directory

\* C2, the part the code keeps: an instance of one of the two known policies
\* holds that policy's splitter and directory and writes no other directory.
C2_BindingOfKnownTypes ==
    (Constructed /\ self.splitter_type \in KnownTypes) =>
        /\ self.text_splitter.kind = self.splitter_type
        /\ self.persist_directory =
               (IF self.splitter_type = "recursive" THEN RecursiveDir ELSE TokenDir)
        /\ \A d \in SaveDirs : index[d] # <<>> => d = self.persist_directory

\* C3: a run that succeeds leaves in the instance's save directory, after what
\* was there when the run started, exactly the chunks that chunking the loaded
\* documents produced, one entry per chunk in chunk order; into an empty
\* directory count() is therefore the number of chunks.
C3_CountIsChunkCount ==
    pc = "done" =>
        /\ vectordb = self.persist_directory
        /\ chunked_documents = chunk_documents(docs)
        /\ index[vectordb] = index0[vectordb] \o chunked_documents
        /\ Count(vectordb) = Len(index0[vectordb]) + Len(chunked_documents)
        /\ index0[vectordb] = <<>> => Count(vectordb) = Len(chunk_documents(docs))

C3_Witness ==
    /\ pc = "done"
    /\ index0[vectordb] = <<>>
    /\ Count(vectordb) >= 4
    /\ \E j, k \in 1..Len(chunked_documents) :
           j # k /\ chunked_documents[j] = chunked_documents[k]

C5_OverlapRejectedBeforeLoad ==
    (/\ self.text_splitter.kind # Unset
     /\ self.text_splitter.chunk_overlap >= self.text_splitter.chunk_size)
        => calls.load = 0 /\ index = EmptyIndex

\* C6 (as claimed): a splitter_type other than recursive and token makes the
\* constructor fail, so no such instance loads documents or writes an index.
C6_UnknownPolicyRejected ==
    (self.splitter_type \notin KnownTypes /\ pc # "new") => pc = "init_failed"

\* C7: in directory mode the loop visits every entry of the listing, in
\* listing order, joined to the directory; in list mode the given paths in the
\* given order.  After k loader calls have returned, docs holds one document
\* per page of the first k paths: its length is the sum of their page counts,
\* and the pages of path f occupy the positions after those of paths 1..f-1,
\* in page order.
C7_OneDocumentPerPage ==
    InRun =>
        /\ IF self.data_directory.is_list
           THEN paths = self.data_directory.items
           ELSE /\ Len(paths) = Len(listing)
                /\ \A k \in 1..Len(listing) : paths[k] = <<DataDir, listing[k]>>
        /\ Len(docs) = SumPages(doc_counter)
        /\ \A f \in 1..doc_counter :
               \A q \in 1..Len(FilePages(paths[f][2])) :
                   docs[SumPages(f - 1) + q] =
                       [source |-> paths[f], page |-> q - 1,
                        len |-> FilePages(paths[f][2])[q]]

C7_Witness ==
    /\ pc = "chunk"
    /\ ~self.data_directory.is_list
    /\ listing = <<"notes.txt", "a.pdf">>
    /\ Len(docs) = 4
    /\ docs[3].source = <<DataDir, "a.pdf">>

\* C8: an exception raised by the loader, the splitter or Chroma ends the run
\* as a failure carrying that exception: no handle is returned, no later stage
\* is called, and no collaborator call is repeated (one loader call per loop
\* position, at most one splitter call and one Chroma call per run).
C8_ErrorsPropagate ==
    InRun =>
        /\ err # NoError <=> pc = "failed"
        /\ pc = "failed" => vectordb = Unset
        /\ vectordb # Unset => pc = "done"
        /\ calls.load = (IF err.stage = "load" THEN doc_counter + 1 ELSE doc_counter)
        /\ calls.load <= Len(paths)
        /\ calls.split <= 1 /\ calls.store <= 1
        /\ err.stage = "load" => calls.split = 0 /\ calls.store = 0
        /\ err.stage = "chunk" => calls.store = 0
        /\ err.stage = "store" => calls.store = 1

C8_Witness ==
    /\ pc = "failed" /\ err.stage = "store" /\ err.kind = "EmbeddingBackendError"
    /\ Len(chunked_documents) > 0
    /\ index = index0

\* C9: with a splitter_type other than recursive and token the constructor
\* completes and assigns neither text_splitter nor persist_directory; a run
\* of such an instance calls the loader on every path and, unless a loader
\* call fails first, fails in the chunk stage on the missing attribute, with
\* no splitter call, no Chroma call and no save directory written.
C9_UnknownTypeFailsAtChunk ==
    (self.splitter_type \notin KnownTypes /\ pc # "new") =>
        /\ pc # "init_failed"
        /\ self.text_splitter = NoSplitter
        /\ self.persist_directory = Unset
        /\ pc \notin {"store", "done", "hung"}
        /\ calls.split = 0 /\ calls.store = 0
        /\ index = EmptyIndex
        /\ pc = "chunk" => doc_counter = Len(paths)
        /\ pc = "failed" =>
               \/ err.stage = "load"
               \/ /\ err = [stage |-> "chunk", kind |-> "AttributeError",
                            path |-> <<>>]
                  /\ doc_counter = Len(paths)
                  /\ calls.load = Len(paths)

C9_Witness ==
    /\ self.splitter_type = "semantic"
    /\ pc = "failed" /\ err.stage = "chunk"
    /\ Len(paths) = 2 /\ Len(docs) = 4

\* C10: after construction no step changes the instance's attributes, the
\* chunk step leaves the loaded documents as they were, and the runs of one
\* instance hand the same chunk sequence to Chroma.
C10_SameChunks ==
    \A j, k \in 1..Len(handed) :
        handed[j].listing = handed[k].listing =>
            handed[j].documents = handed[k].documents

C10_ConfigurationUnchanged ==
    /\ [](C10_SameChunks)
    /\ [][Constructed => self' = self]_vars
    /\ [][pc = "chunk" => docs' = docs]_vars

C10_Witness ==
    /\ Len(handed) = 2
    /\ handed[1].listing = handed[2].listing
    /\ Len(handed[1].documents) >= 4
    /\ runs = 2 /\ pc = "done"
====
